---- MODULE Spec2Model ----
(***************************************************************************)
(* A model of telegram-bot/bot.py: the BubbleMap Telegram bot.             *)
(*                                                                         *)
(* Texts are sequences of pieces (a piece is a TLA+ string); string        *)
(* concatenation is \o.  Addresses are sequences of one-character strings, *)
(* so that startswith, len, strip and the base-58 decoding are computed.   *)
(***************************************************************************)
EXTENDS Integers, Sequences, FiniteSets, TLC

VARIABLES
    waiting_for,   \* context.user_data per user: the 'waiting_for' entry ("none" when absent)
    req,           \* the update being handled (or the last one handled) and what it produced
    chain_mapping, \* the module-level dict CHAIN_MAPPING as the process holds it
    in_addr,       \* SpecAddr: the string handed to the address check
    out_addr,      \* SpecAddr: what the address check of process_token_address did with it
    in_resp,       \* SpecLookup: the market-data response handed to get_token_info
    out_lookup,    \* SpecLookup: what get_token_info returned for it
    in_num,        \* SpecFormat: the integer handed to format_number, as its digits
    out_num,       \* SpecFormat: what format_number did with it
    queue,         \* SpecQueue: the updates received and not yet done with, oldest first
    done,          \* SpecQueue: the updates done with and how their requests ended
    twin           \* SpecSample: process_token_address on the sample address, given the
                   \* provider responses the sample flow (req) is given

vars == <<waiting_for, req, chain_mapping, twin, in_addr, out_addr, in_resp, out_lookup, in_num, out_num, queue, done>>

\* what no handler of the bot writes: the chain registry (read at line 151
\* only), and the variables of SpecAddr, SpecLookup, SpecFormat, SpecQueue
\* and SpecSample
pure == <<chain_mapping, twin, in_addr, out_addr, in_resp, out_lookup, in_num, out_num, queue, done>>

(***************************************************************************)
(* Bounds of the model.                                                    *)
(***************************************************************************)
MaxFill == 45      \* longest run of one character in a generated address
MaxPairs == 3      \* longest pair list of a market-data response (SpecLookup)
MaxVol == 3        \* largest 24h volume a pair reports
MaxMainPairs == 2  \* longest pair list of a market-data response (Spec)
MaxDigits == 15    \* most digits of a generated integer (SpecFormat)
MaxUpdates == 2    \* most updates a user sends (SpecQueue)

(***************************************************************************)
(* Generic helpers.                                                        *)
(***************************************************************************)
Range(s) == {s[i] : i \in 1..Len(s)}

RECURSIVE Rep(_, _)
Rep(c, n) == IF n = 0 THEN <<>> ELSE <<c>> \o Rep(c, n - 1)

Absent == "<absent>"     \* a key a JSON object does not have
Null == "<null>"         \* JSON null / Python None

(***************************************************************************)
(* str.strip(), str.startswith('0x'), len()                                *)
(***************************************************************************)
RECURSIVE LStrip(_)
LStrip(s) == IF s # <<>> /\ Head(s) = " " THEN LStrip(Tail(s)) ELSE s

RECURSIVE RStrip(_)
RStrip(s) == IF s # <<>> /\ s[Len(s)] = " " THEN RStrip(SubSeq(s, 1, Len(s) - 1)) ELSE s

Strip(s) == RStrip(LStrip(s))

StartsWith(s, p) == Len(s) >= Len(p) /\ SubSeq(s, 1, Len(p)) = p

(***************************************************************************)
(* base58.b58decode: the Bitcoin alphabet, leading '1's are zero bytes,    *)
(* the rest is a base-58 number written in base 256.  The number is kept   *)
(* as its little-endian byte sequence (no leading zero byte), because it   *)
(* does not fit a machine integer.                                         *)
(***************************************************************************)
B58Alphabet ==
    << "1","2","3","4","5","6","7","8","9",
       "A","B","C","D","E","F","G","H","J","K","L","M","N","P","Q","R","S","T","U","V","W","X","Y","Z",
       "a","b","c","d","e","f","g","h","i","j","k","m","n","o","p","q","r","s","t","u","v","w","x","y","z" >>

B58Digit(c) == (CHOOSE i \in 1..Len(B58Alphabet) : B58Alphabet[i] = c) - 1

B58Valid(s) == \A i \in 1..Len(s) : s[i] \in Range(B58Alphabet)

\* bytes of (the number of `bytes`) * 58 + carry, little-endian
RECURSIVE MulAdd58(_, _)
MulAdd58(bytes, carry) ==
    IF bytes = <<>>
    THEN IF carry = 0 THEN <<>> ELSE <<carry>>
    ELSE LET v == Head(bytes) * 58 + carry
         IN  <<v % 256>> \o MulAdd58(Tail(bytes), v \div 256)

\* b58decode_int: decimal = decimal * 58 + digit, over the characters left to right
RECURSIVE B58Int(_, _)
B58Int(s, acc) ==
    IF s = <<>> THEN acc ELSE B58Int(Tail(s), MulAdd58(acc, B58Digit(Head(s))))

RECURSIVE LStripOnes(_)
LStripOnes(s) == IF s # <<>> /\ Head(s) = "1" THEN LStripOnes(Tail(s)) ELSE s

\* len(base58.b58decode(s)), or -1 when the decoding raises (a character outside the alphabet)
B58DecodedLen(s) ==
    LET v == RStrip(s)
    IN  IF ~B58Valid(v) THEN -1
        ELSE LET rest == LStripOnes(v)
             IN  (Len(v) - Len(rest)) + Len(B58Int(rest, <<>>))

B58Bytes == 32
is_base58(address) == B58DecodedLen(address) = B58Bytes

HexMinLen == 40
HexPrefix == <<"0", "x">>

\* the condition of line 293, negated: the address passes the validation
AddressOk_or(token_address) ==
    ~( ~(StartsWith(token_address, HexPrefix) \/ Len(token_address) >= HexMinLen)
       /\ ~is_base58(token_address) )
AddressOk(token_address) ==
    ~( ~(StartsWith(token_address, HexPrefix) /\ Len(token_address) >= HexMinLen)
       /\ ~is_base58(token_address) )

(***************************************************************************)
(* JSON values as the handlers read them: a number, a string, null, or a   *)
(* key that is absent.  One record shape, so that any two compare.         *)
(***************************************************************************)
Num(n) == [t |-> "num", n |-> n, s |-> ""]
Str(s) == [t |-> "str", n |-> 0, s |-> s]
AbsentV == [t |-> "absent", n |-> 0, s |-> ""]
Unknown == Str("Unknown")

\* dict.get(key, 'Unknown') on a key that may be absent
GetOrUnknown(v) == IF v = AbsentV THEN Unknown ELSE v

(***************************************************************************)
(* CHAIN_MAPPING (lines 39-50) and str.lower() / str.upper() on the chain  *)
(* ids the model uses.                                                     *)
(***************************************************************************)
\* a registry in which two provider ids share an internal id
CHAIN_MAPPING_shared ==
    [ ethereum |-> "eth", bsc |-> "bsc", fantom |-> "ftm", avalanche |-> "avax",
      cronos |-> "cro", arbitrum |-> "arbi", polygon |-> "eth", base |-> "base",
      solana |-> "sol", sonic |-> "sonic" ]
CHAIN_MAPPING ==
    [ ethereum |-> "eth", bsc |-> "bsc", fantom |-> "ftm", avalanche |-> "avax",
      cronos |-> "cro", arbitrum |-> "arbi", polygon |-> "poly", base |-> "base",
      solana |-> "sol", sonic |-> "sonic" ]

Lower(s) ==
    CASE s = "BSC" -> "bsc"
      [] s = "Tron" -> "tron"
      [] s = "Ethereum" -> "ethereum"
      [] OTHER -> s

Upper(s) ==
    CASE s = "ethereum" -> "ETHEREUM"
      [] s = "bsc" -> "BSC"
      [] s = "fantom" -> "FANTOM"
      [] s = "avalanche" -> "AVALANCHE"
      [] s = "cronos" -> "CRONOS"
      [] s = "arbitrum" -> "ARBITRUM"
      [] s = "polygon" -> "POLYGON"
      [] s = "base" -> "BASE"
      [] s = "solana" -> "SOLANA"
      [] s = "sonic" -> "SONIC"
      [] s = "tron" -> "TRON"
      [] OTHER -> s

\* a lookup that passes an unregistered chain id through
ChainLookup_passthrough(chain_id) ==
    IF chain_id \in DOMAIN chain_mapping THEN chain_mapping[chain_id] ELSE chain_id

\* CHAIN_MAPPING.get(chain_id): "" stands for None
ChainLookup(chain_id) ==
    IF chain_id \in DOMAIN chain_mapping THEN chain_mapping[chain_id] ELSE ""

(***************************************************************************)
(* The market-data provider's response (lines 126-128).                    *)
(*   kind "fault": requests.get, raise_for_status or response.json()       *)
(*                 raised; cause is the text of the exception              *)
(*   kind "ok":    a JSON object; pairs is Absent, Null or a list of pairs *)
(* A pair is the object get_token_info reads; chainId is a string, Absent  *)
(* or Null.                                                                *)
(***************************************************************************)
Causes == {"ConnectionError: connection refused", "HTTPError: 429 Too Many Requests"}

NoVolume == [present |-> FALSE, h24 |-> AbsentV]     \* no 'volume' key
NoH24 == [present |-> TRUE, h24 |-> AbsentV]         \* 'volume' without 'h24'
Volume(v) == [present |-> TRUE, h24 |-> Num(v)]
Volumes == {NoVolume, NoH24} \cup {Volume(v) : v \in 0..MaxVol}

\* the fields of a pair other than its volume
PairKinds ==
    { [ chainId |-> "ethereum",
        baseToken |-> [present |-> TRUE, name |-> Str("Compound"), symbol |-> Str("COMP")],
        priceUsd |-> Str("41.5"), priceNative |-> Str("0.016"),
        liquidity |-> [present |-> TRUE, usd |-> Num(250)],
        marketCap |-> Num(999), fdv |-> Num(7), pairAddress |-> Str("0xpairA"), dexId |-> Str("uniswap") ],
      [ chainId |-> "BSC",
        baseToken |-> [present |-> TRUE, name |-> AbsentV, symbol |-> AbsentV],
        priceUsd |-> AbsentV, priceNative |-> AbsentV,
        liquidity |-> [present |-> TRUE, usd |-> AbsentV],
        marketCap |-> AbsentV, fdv |-> AbsentV, pairAddress |-> Str("0xpairB"), dexId |-> Str("pancakeswap") ],
      [ chainId |-> "Tron",
        baseToken |-> [present |-> TRUE, name |-> Str("Sun"), symbol |-> Str("SUN")],
        priceUsd |-> Str("3"), priceNative |-> Str("1"),
        liquidity |-> [present |-> TRUE, usd |-> Num(5)],
        marketCap |-> Num(8), fdv |-> AbsentV, pairAddress |-> Str("TpairC"), dexId |-> AbsentV ],
      [ chainId |-> Absent,
        baseToken |-> [present |-> FALSE, name |-> AbsentV, symbol |-> AbsentV],
        priceUsd |-> AbsentV, priceNative |-> AbsentV,
        liquidity |-> [present |-> FALSE, usd |-> AbsentV],
        marketCap |-> AbsentV, fdv |-> AbsentV, pairAddress |-> AbsentV, dexId |-> AbsentV ] }

WithVolume(k, v) ==
    [ chainId |-> k.chainId, volume |-> v, baseToken |-> k.baseToken, priceUsd |-> k.priceUsd,
      priceNative |-> k.priceNative, liquidity |-> k.liquidity, marketCap |-> k.marketCap,
      fdv |-> k.fdv, pairAddress |-> k.pairAddress, dexId |-> k.dexId ]

Pairs == {WithVolume(k, v) : k \in PairKinds, v \in Volumes}

SeqsUpTo(S, n) == UNION {[1..m -> S] : m \in 0..n}

Fault(c) == [kind |-> "fault", cause |-> c, pairs |-> <<>>, nopairs |-> ""]
\* 'pairs' missing (Absent), null (Null), or a list
NoPairsKey(w) == [kind |-> "ok", cause |-> "", pairs |-> <<>>, nopairs |-> w]
PairsResp(ps) == [kind |-> "ok", cause |-> "", pairs |-> ps, nopairs |-> ""]

\* the response has zero pairs: pairs missing, null or an empty list
ZeroPairs(resp) == resp.kind = "ok" /\ resp.pairs = <<>>

(***************************************************************************)
(* get_token_info (lines 123-196).                                         *)
(***************************************************************************)
Reports(pair) == pair.volume.present /\ pair.volume.h24 # AbsentV

\* lines 135-144: the loop; idx 0 is highest_volume_pair = None
RECURSIVE HighestFrom(_, _, _, _)
HighestFrom(pairs, i, highest_volume, idx) ==
    IF i > Len(pairs) THEN [highest_volume |-> highest_volume, idx |-> idx]
    ELSE IF Reports(pairs[i]) /\ pairs[i].volume.h24.n > highest_volume
         THEN HighestFrom(pairs, i + 1, pairs[i].volume.h24.n, i)
         ELSE HighestFrom(pairs, i + 1, highest_volume, idx)

HighestVolume(pairs) == HighestFrom(pairs, 1, 0, 0)

\* line 147, as an index into pairs
SelectedIndex_last(pairs) ==
    LET h == HighestVolume(pairs) IN IF h.idx # 0 THEN h.idx ELSE Len(pairs)
SelectedIndex(pairs) ==
    LET h == HighestVolume(pairs) IN IF h.idx # 0 THEN h.idx ELSE 1

\* line 150: pair.get('chainId', '').lower(); None.lower() raises
ChainIdOf(pair) == IF pair.chainId = Absent THEN "" ELSE Lower(pair.chainId)

NoPairsText == <<"No token information found. Please verify the contract address.">>
UnsupportedText(chain_id) == <<"Chain ", chain_id, " not supported for bubble maps.">>
FetchErrorText(cause) == <<"Error fetching token info: ", cause>>

\* lines 156-191
TokenInfo(token_address, pair, highest_volume) ==
    [ address |-> token_address,
      name |-> IF pair.baseToken.present THEN GetOrUnknown(pair.baseToken.name) ELSE Unknown,
      symbol |-> IF pair.baseToken.present THEN GetOrUnknown(pair.baseToken.symbol) ELSE Unknown,
      chain |-> ChainLookup(ChainIdOf(pair)),
      chain_original |-> ChainIdOf(pair),
      price_usd |-> GetOrUnknown(pair.priceUsd),
      price_native |-> GetOrUnknown(pair.priceNative),
      liquidity_usd |-> IF pair.liquidity.present THEN GetOrUnknown(pair.liquidity.usd) ELSE Unknown,
      market_cap |-> GetOrUnknown(pair.marketCap),
      fdv |-> GetOrUnknown(pair.fdv),
      volume_h24 |-> IF highest_volume > 0 THEN Num(highest_volume) ELSE Unknown,
      pair_address |-> GetOrUnknown(pair.pairAddress),
      dex |-> GetOrUnknown(pair.dexId) ]

\* what get_token_info returns: (token_info, error); <<>> stands for None
Found(ti) == [token_info |-> <<ti>>, error |-> <<>>]
Failed(text) == [token_info |-> <<>>, error |-> text]

\* lines 147-193: the pair at index idx is the selected one
Resolve(token_address, pairs, idx) ==
    LET pair == pairs[idx]
    IN  IF pair.chainId = Null
        THEN Failed(FetchErrorText("'NoneType' object has no attribute 'lower'"))
        ELSE IF ChainLookup(ChainIdOf(pair)) = ""
             THEN Failed(UnsupportedText(ChainIdOf(pair)))
             ELSE Found(TokenInfo(token_address, pair, HighestVolume(pairs).highest_volume))

\* get_token_info without the check of line 130: pairs[0] of an empty list raises
get_token_info_nocheck(token_address, resp) ==
    IF resp.kind = "fault" THEN Failed(FetchErrorText(resp.cause))
    ELSE IF resp.pairs = <<>> THEN Failed(FetchErrorText("list index out of range"))
    ELSE Resolve(token_address, resp.pairs, SelectedIndex(resp.pairs))

get_token_info(token_address, resp) ==
    IF resp.kind = "fault" THEN Failed(FetchErrorText(resp.cause))
    ELSE IF resp.pairs = <<>> THEN Failed(NoPairsText)
    ELSE Resolve(token_address, resp.pairs, SelectedIndex(resp.pairs))

(***************************************************************************)
(* format_number (lines 249-268).  An integer is its decimal digits, most  *)
(* significant first, without leading zeros, so that it has Python's       *)
(* unbounded width: dividing by a unit 10^k moves the decimal point.       *)
(*   number / unit  is the double nearest to the quotient (53 bits);       *)
(*   f"{x:.2f}"     rounds the double's exact value to hundredths, a tie   *)
(*                  to the even hundredth.                                 *)
(* A quotient that is no tie between two hundredths is closer to them than *)
(* the double's error as long as its integer part has at most four digits; *)
(* a quotient of DoubleMaxDigits or more integer digits is no double, and  *)
(* the division raises OverflowError.  Integer parts of 5 to 309 digits    *)
(* are outside the numbers the model formats.                              *)
(***************************************************************************)
NullV == [t |-> "null", n |-> 0, s |-> ""]

Digit == <<"0", "1", "2", "3", "4", "5", "6", "7", "8", "9">>

RECURSIVE Dec(_)
Dec(n) == IF n < 10 THEN <<Digit[n + 1]>> ELSE Dec(n \div 10) \o <<Digit[(n % 10) + 1]>>

DigitVal(d) == CHOOSE i \in 0..9 : Digit[i + 1] = d

\* int() of a short run of digits
RECURSIVE NatOf(_)
NatOf(ds) ==
    IF ds = <<>> THEN 0 ELSE 10 * NatOf(SubSeq(ds, 1, Len(ds) - 1)) + DigitVal(ds[Len(ds)])

\* f"{h / 100:.2f}" for a number of hundredths h
Fixed2(h) == Dec(h \div 100) \o <<".", Digit[((h \div 10) % 10) + 1], Digit[(h % 10) + 1]>>

\* lines 259-266: the exponent k of the unit 10^k the number is divided by
UnitExp(ds) ==
    IF Len(ds) >= 13 THEN 12
    ELSE IF Len(ds) >= 10 THEN 9
    ELSE IF Len(ds) >= 7 THEN 6
    ELSE IF Len(ds) >= 4 THEN 3
    ELSE 0

Suffix(k) ==
    CASE k = 12 -> <<"T">>
      [] k = 9 -> <<"B">>
      [] k = 6 -> <<"M">>
      [] k = 3 -> <<"K">>
      [] OTHER -> <<>>

\* the digits behind the second decimal against a half: -1 below, 0 equal, 1 above
HalfCmp(rest) ==
    IF rest = <<>> \/ DigitVal(rest[1]) < 5 THEN -1
    ELSE IF DigitVal(rest[1]) > 5 \/ \E i \in 2..Len(rest) : rest[i] # "0" THEN 1
    ELSE 0

RECURSIVE BitLen(_)
BitLen(n) == IF n = 0 THEN 0 ELSE 1 + BitLen(n \div 2)

RECURSIVE Pow2Mod200(_)
Pow2Mod200(s) == IF s = 0 THEN 1 ELSE (2 * Pow2Mod200(s - 1)) % 200

\* the quotient (2 * h0 + 1) / 200, half way between h0 and h0 + 1 hundredths,
\* is formatted as h0 + 1: when it is a double itself (25 divides 2 * h0 + 1),
\* if h0 is odd; otherwise if the nearest double lies above it, which the
\* remainder of (2 * h0 + 1) * 2^s by 200 tells, 2^s scaling the quotient to 53 bits
TieUp(h0) ==
    LET m == 2 * h0 + 1
        s == 53 - BitLen(h0 \div 100)
    IN  IF m % 25 = 0 THEN h0 % 2 = 1
        ELSE ((m % 200) * Pow2Mod200(s)) % 200 > 100

DoubleMaxDigits == 310

\* number / unit raises OverflowError (lines 260-266)
FormatOverflows(ds) == Len(ds) - UnitExp(ds) >= DoubleMaxDigits

\* lines 259-268 for an integer
FormatInt(ds) ==
    LET k == UnitExp(ds)
        h0 == NatOf(SubSeq(ds, 1, Len(ds) - k + 2))
        c == HalfCmp(SubSeq(ds, Len(ds) - k + 3, Len(ds)))
    IN  IF k = 0 THEN ds \o <<".", "0", "0">>
        ELSE Fixed2(IF c = 1 \/ (c = 0 /\ TieUp(h0)) THEN h0 + 1 ELSE h0) \o Suffix(k)

\* a number of the model's JSON values, below 2^31
FormatNum(n) == FormatInt(Dec(n))

\* what format_number did: nothing yet, raised, or returned a text
NoFormat == [raised |-> FALSE, text |-> <<>>]
FormatRaised == [raised |-> TRUE, text |-> <<>>]
Formatted(text) == [raised |-> FALSE, text |-> text]

\* float(s) of the strings the model uses; a string outside the table does not parse
ParseFloat == [s \in {"12", "250"} |-> IF s = "12" THEN 12 ELSE 250]

format_number(number) ==
    CASE number.t = "str" ->
             IF number.s \in DOMAIN ParseFloat THEN FormatNum(ParseFloat[number.s])
             ELSE <<number.s>>
      [] number.t = "null" -> <<"Unknown">>
      [] OTHER -> FormatNum(number.n)

\* str(value) inside an f-string
ToText(v) ==
    CASE v.t = "str" -> <<v.s>>
      [] v.t = "null" -> <<"None">>
      [] OTHER -> Dec(v.n)

(***************************************************************************)
(* The holder-metadata provider's response (lines 202-205) and             *)
(* get_bubblemap_metadata (lines 199-208).                                 *)
(*   kind "fault": requests.get, raise_for_status or response.json() raised*)
(*   kind "json":  the parsed body: shape "empty" (a falsy value: {}, null,*)
(*                 [], 0), "list" (a non-empty list) or "obj" (an object   *)
(*                 with the fields below)                                  *)
(* A field is AbsentV, a number, or unusable as a number (a string, null). *)
(* identified_supply is absent ("absent"), null ("null") or an object.     *)
(***************************************************************************)
MetaFaults == {"network", "status", "parse"}

MetaFields == {AbsentV, Num(55), Str("n/a"), NullV}

MetaFault(c) ==
    [kind |-> "fault", cause |-> c, shape |-> "", score |-> AbsentV,
     supply |-> "absent", cexs |-> AbsentV, contracts |-> AbsentV]
MetaJson(shape, score, supply, cexs, contracts) ==
    [kind |-> "json", cause |-> "", shape |-> shape, score |-> score,
     supply |-> supply, cexs |-> cexs, contracts |-> contracts]

MetaResponses ==
    {MetaFault(c) : c \in MetaFaults}
    \cup {MetaJson("empty", AbsentV, "absent", AbsentV, AbsentV),
          MetaJson("list", AbsentV, "absent", AbsentV, AbsentV)}
    \cup {MetaJson("obj", sc, "absent", AbsentV, AbsentV) : sc \in MetaFields}
    \cup {MetaJson("obj", sc, "null", AbsentV, AbsentV) : sc \in {AbsentV, Num(55)}}
    \cup {MetaJson("obj", sc, "obj", cx, ct) :
              sc \in {AbsentV, Num(55)}, cx \in MetaFields, ct \in {AbsentV, Num(30), NullV}}

\* (metadata, error): metadata is <<body>> or <<>> for None; error is "" for None
get_bubblemap_metadata(resp) ==
    IF resp.kind = "fault"
    THEN [metadata |-> <<>>, error |-> "Error fetching bubble map metadata: "]
    ELSE [metadata |-> <<resp>>, error |-> ""]

\* `if metadata and not error` (line 235)
MetaUsed(resp) ==
    LET r == get_bubblemap_metadata(resp)
    IN  r.metadata # <<>> /\ r.metadata[1].shape # "empty" /\ r.error = ""

\* f"{x:.2f}" raises on a value that is not a number
Formattable(v) == v.t = "num"

\* lines 236-245 raise: a field that is present but cannot be formatted, or
\* `in` applied to an identified_supply that is null
MetaRaises(resp) ==
    /\ MetaUsed(resp)
    /\ resp.shape = "obj"
    /\ \/ resp.score # AbsentV /\ ~Formattable(resp.score)
       \/ resp.supply = "null"
       \/ resp.supply = "obj" /\ resp.cexs # AbsentV /\ ~Formattable(resp.cexs)
       \/ resp.supply = "obj" /\ resp.contracts # AbsentV /\ ~Formattable(resp.contracts)

\* lines 236-245: the block added to the message
MetaBlock(resp) ==
    IF ~MetaUsed(resp) THEN <<>>
    ELSE <<"\n*BubbleMap Metrics:*\n">>
         \o (IF resp.shape = "obj" /\ resp.score # AbsentV
             THEN <<"*Decentralization Score:* ">> \o Fixed2(resp.score.n * 100) \o <<"/100\n">>
             ELSE <<>>)
         \o (IF resp.shape = "obj" /\ resp.supply = "obj" /\ resp.cexs # AbsentV
             THEN <<"*% in CEXs:* ">> \o Fixed2(resp.cexs.n * 100) \o <<"%\n">>
             ELSE <<>>)
         \o (IF resp.shape = "obj" /\ resp.supply = "obj" /\ resp.contracts # AbsentV
             THEN <<"*% in Contracts:* ">> \o Fixed2(resp.contracts.n * 100) \o <<"%\n">>
             ELSE <<>>)

(***************************************************************************)
(* format_token_info_message (lines 210-247).                              *)
(***************************************************************************)
\* a composition that prints the four conditional lines whatever their value
MarketLines_always(token_info) ==
    <<"*">> \o ToText(token_info.name) \o <<" (">> \o ToText(token_info.symbol) \o <<")*\n\n">>
    \o <<"*Chain:* ", Upper(token_info.chain_original), "\n">>
    \o <<"*Contract:* ">> \o token_info.address \o <<"\n">>
    \o <<"*Price:* $">> \o ToText(token_info.price_usd) \o <<"\n">>
    \o <<"*24h Volume:* $">> \o format_number(token_info.volume_h24) \o <<"\n">>
    \o <<"*Liquidity:* $">> \o format_number(token_info.liquidity_usd) \o <<"\n">>
    \o <<"*Market Cap:* $">> \o format_number(token_info.market_cap) \o <<"\n">>
    \o <<"*FDV:* $">> \o format_number(token_info.fdv) \o <<"\n">>
\* lines 212-231: the part built from token_info alone
MarketLines(token_info) ==
    <<"*">> \o ToText(token_info.name) \o <<" (">> \o ToText(token_info.symbol) \o <<")*\n\n">>
    \o <<"*Chain:* ", Upper(token_info.chain_original), "\n">>
    \o <<"*Contract:* ">> \o token_info.address \o <<"\n">>
    \o <<"*Price:* $">> \o ToText(token_info.price_usd) \o <<"\n">>
    \o (IF token_info.volume_h24 # Unknown
        THEN <<"*24h Volume:* $">> \o format_number(token_info.volume_h24) \o <<"\n">> ELSE <<>>)
    \o (IF token_info.liquidity_usd # Unknown
        THEN <<"*Liquidity:* $">> \o format_number(token_info.liquidity_usd) \o <<"\n">> ELSE <<>>)
    \o (IF token_info.market_cap # Unknown
        THEN <<"*Market Cap:* $">> \o format_number(token_info.market_cap) \o <<"\n">> ELSE <<>>)
    \o (IF token_info.fdv # Unknown
        THEN <<"*FDV:* $">> \o format_number(token_info.fdv) \o <<"\n">> ELSE <<>>)

\* the message returned, or raised = TRUE when the function raises
format_token_info_message(token_info, meta) ==
    IF MetaRaises(meta) THEN [raised |-> TRUE, message |-> <<>>]
    ELSE [raised |-> FALSE, message |-> MarketLines(token_info) \o MetaBlock(meta)]

(***************************************************************************)
(* The rendering service's response to the image request (lines 332-333)   *)
(* and the failure reason built from it (lines 364-379).                   *)
(*   kind "ok":     200, the image                                         *)
(*   kind "noresp": a RequestException without a response                  *)
(*   kind "http":   raise_for_status raised; the body is                   *)
(*        json "invalid": not JSON, its text is raw                        *)
(*        json "obj":     an object; error is absent, a string (err), or   *)
(*                        errtype "null" / "obj" (a nested object)         *)
(*        json "null", "list": valid JSON that is not an object            *)
(* A text's length is the sum of its pieces' lengths.                      *)
(***************************************************************************)
MapNotComputed == "Map not computed. API key required"
TokenNotFound == "Token not found"
Filler195 == "<a text of 195 characters>"

PieceLen(p) ==
    CASE p = MapNotComputed -> 34
      [] p = TokenNotFound -> 15
      [] p = Filler195 -> 195
      [] p = "Oops" -> 4
      [] p = "!" -> 1
      [] OTHER -> 1

RECURSIVE TextLen(_)
TextLen(t) == IF t = <<>> THEN 0 ELSE PieceLen(Head(t)) + TextLen(Tail(t))

\* `phrase in text`
Contains(text, phrase) == phrase \in Range(text)

ShortTextLimit == 200

ImgOk == [kind |-> "ok", json |-> "", errtype |-> "", err |-> <<>>, raw |-> <<>>]
ImgNoResp == [kind |-> "noresp", json |-> "", errtype |-> "", err |-> <<>>, raw |-> <<>>]
ImgRaw(raw) == [kind |-> "http", json |-> "invalid", errtype |-> "", err |-> <<>>, raw |-> raw]
ImgJson(json) == [kind |-> "http", json |-> json, errtype |-> "absent", err |-> <<>>, raw |-> <<>>]
ImgError(errtype, err) == [kind |-> "http", json |-> "obj", errtype |-> errtype, err |-> err, raw |-> <<>>]

ErrorTexts ==
    { <<MapNotComputed>>, <<"Oops", MapNotComputed, "!">>, <<TokenNotFound>>,
      <<TokenNotFound, MapNotComputed>>, <<"Oops">>, <<"Oops", Filler195>>, <<"Oops", Filler195, "!">> }

RawTexts == { <<>>, <<"Oops">>, <<"Oops", Filler195>>, <<"Oops", Filler195, "!">> }

ImageResponses ==
    {ImgOk, ImgNoResp}
    \cup {ImgRaw(t) : t \in RawTexts}
    \cup {ImgJson(j) : j \in {"obj", "null", "list"}}
    \cup {ImgError("str", t) : t \in ErrorTexts}
    \cup {ImgError("null", <<>>), ImgError("obj", <<"{'code': 500}">>)}

ImageFailed(img) == img.kind # "ok"

GenericImageError == <<"Error generating bubble map.", "\n\n">>
GenericSampleError == <<"Error generating sample bubble map.", "\n\n">>
NoMapDataText == <<"No bubble map data available for this token.", "\n\n">>
TokenNotFoundText(chain) == <<"Token not found on ", chain, ".", "\n\n">>

\* lines 366-379 raise an exception the handler does not catch (a TypeError):
\* `'error' in None`, or `"..." in error_json['error']` on an error that is null
ImageErrorRaises(img) ==
    /\ img.kind = "http"
    /\ \/ img.json = "null"
       \/ img.json = "obj" /\ img.errtype = "null"

\* lines 378-379
RawFallback(img, generic) ==
    IF img.raw # <<>> /\ TextLen(img.raw) < ShortTextLimit THEN img.raw \o <<"\n\n">> ELSE generic

\* lines 364-379 of process_token_address: error_message
ImageErrorMessage(img, chain) ==
    IF img.kind = "noresp" THEN GenericImageError
    ELSE IF img.json = "invalid" THEN RawFallback(img, GenericImageError)
    ELSE IF img.json = "obj" /\ img.errtype = "str"
         THEN IF Contains(img.err, MapNotComputed) THEN NoMapDataText
              ELSE IF Contains(img.err, TokenNotFound) THEN TokenNotFoundText(chain)
              ELSE img.err \o <<"\n\n">>
    ELSE IF img.json = "obj" /\ img.errtype = "obj" THEN img.err \o <<"\n\n">>
    ELSE GenericImageError

\* lines 502-511 of button_callback: error_message
SampleErrorMessage(img) ==
    IF img.kind = "noresp" THEN GenericSampleError
    ELSE IF img.json = "invalid" THEN RawFallback(img, GenericSampleError)
    ELSE IF img.json = "obj" /\ img.errtype \in {"str", "obj"} THEN img.err \o <<"\n\n">>
    ELSE IF img.json = "obj" /\ img.errtype = "null" THEN <<"None", "\n\n">>
    ELSE GenericSampleError

\* the sample flow's `'error' in error_json` raises on a JSON null; an error
\* that is null is formatted ("None")
SampleErrorRaises(img) == img.kind = "http" /\ img.json = "null"

(***************************************************************************)
(* The bot: users, their messages, and the update being handled.           *)
(***************************************************************************)
Users == {"alice", "bob"}

\* sample_token of button_callback (line 438)
SampleToken ==
    << "0","x","c","0","0","e","9","4","c","b","6","6","2","c","3","5","2","0","2","8","2",
       "e","6","f","5","7","1","7","2","1","4","0","0","4","a","7","f","2","6","8","8","8" >>

Base58Token == Rep("z", 43)          \* decodes to 32 bytes
ShortHex == <<"0", "x", "a", "b">>   \* too short, and '0' is no base-58 character
Hello == <<"h", "i">>
SlashText == <<"/", " ", "h", "i">>  \* starts with '/', yet no bot command: the filter lets it through

\* context.args[0] of /bubblemap <arg>: a word without whitespace
Arguments == {SampleToken, Base58Token, ShortHex}

\* update.message.text of a text message that is no command
TextMessages == Arguments \cup {Hello, SlashText, <<" ">> \o Base58Token \o <<" ">>}

ButtonData == {"show_commands", "sample_bubblemap", "show_chains", "help"}

NoMarket == [kind |-> "none", cause |-> "", pairs |-> <<>>, nopairs |-> ""]
NoMeta ==
    [kind |-> "none", cause |-> "", shape |-> "", score |-> AbsentV,
     supply |-> "absent", cexs |-> AbsentV, contracts |-> AbsentV]
NoImage == [kind |-> "none", json |-> "", errtype |-> "", err |-> <<>>, raw |-> <<>>]
NoRequest == [chain |-> "", token |-> <<>>]
NoStatus == [state |-> "none", text |-> <<>>]
NoPhoto == [sent |-> FALSE, caption |-> <<>>]

\* an update as its handler starts
NewReq(handler, user, text) ==
    [ handler |-> handler,        \* start, help, menu, bubblemap, text, button
      user |-> user,
      text |-> text,              \* the argument, the message text, or <<button data>>
      flow |-> "none",            \* process (process_token_address), sample, or none
      token_address |-> <<>>,
      pc |-> "done",              \* market, compose, image: the provider call to make next;
                                  \* done: the handler returned; raised: it raised
      replies |-> <<>>,           \* the texts sent with reply_text or edited into a menu
      status |-> NoStatus,        \* the status message: none, shown (with its text), deleted
      photo |-> NoPhoto,          \* send_photo
      token_info |-> <<>>,
      token_info_message |-> <<>>,
      market |-> NoMarket,        \* the response of the last provider call made
      meta |-> NoMeta,
      image |-> NoImage,
      n_market |-> 0,             \* requests issued to each provider
      n_meta |-> 0,
      n_image |-> 0,
      meta_req |-> NoRequest,
      image_req |-> NoRequest ]

NoReq == NewReq("none", "", <<>>)

Finished(r) == r.pc \in {"done", "raised"}

StartText == <<"Welcome to BubbleMap Bot!">>
HelpText == <<"BubbleMap Bot Commands:">>
MenuText == <<"BubbleMap Bot Menu">>
PromptText == <<"Please enter the token contract address:">>
InvalidFormatText == <<"Invalid token address format. Please provide a valid CA.">>
FetchingText == <<"Fetching token information...">>
GeneratingText == <<"Generating bubble map visualization...">>
GeneratingSampleText == <<"Generating sample bubble map visualization...">>
HintText == <<"Please use the /bubblemap command to generate a visualization.">>
CommandsText == <<"Available Commands:">>
ChainsText == <<"Supported Blockchain Networks:">>
ButtonHelpText == <<"BubbleMap Bot Help">>

(***************************************************************************)
(* The handlers.  The Application handles one update at a time (main,      *)
(* lines 559-574): a handler starts when the one before it has returned.   *)
(***************************************************************************)
\* lines 62-81, 83-99, 101-121
Simple(handler, text) ==
    \E u \in Users :
        /\ Finished(req)
        /\ req' = [NewReq(handler, u, <<>>) EXCEPT !.replies = <<text>>]
        /\ UNCHANGED <<waiting_for, pure>>

start == Simple("start", StartText)
help_command == Simple("help", HelpText)
menu_command == Simple("menu", MenuText)

\* the strings SpecAddr hands to the address check: a head followed by a run of
\* one character (no whitespace at either end: an argument has none, a text is stripped)
Heads == { <<>>, <<"0", "x">>, <<"0", "X">>, <<"x", "0">>, <<"1">>, <<"1", "1">>, <<"z", " ">> }
FillChars == {"a", "z", "1", "2", "0", "O"}

AddrInputs == {h \o Rep(c, n) : h \in Heads, c \in FillChars, n \in 0..MaxFill}

\* line 293 on every string the model hands to it, evaluated once
Accepted == {a \in AddrInputs \cup Arguments \cup {Strip(t) : t \in TextMessages} : AddressOk(a)}

\* a validation that sends the status message before it replies
ProcessEntry_status(r, token_address) ==
    IF token_address \notin Accepted
    THEN [r EXCEPT !.flow = "process", !.token_address = token_address,
                   !.status = [state |-> "shown", text |-> FetchingText],
                   !.replies = <<InvalidFormatText>>, !.pc = "done"]
    ELSE [r EXCEPT !.flow = "process", !.token_address = token_address,
                   !.status = [state |-> "shown", text |-> FetchingText], !.pc = "market"]
\* lines 293-300: the validation and the status message of process_token_address
ProcessEntry(r, token_address) ==
    IF token_address \notin Accepted
    THEN [r EXCEPT !.flow = "process", !.token_address = token_address,
                   !.replies = <<InvalidFormatText>>, !.pc = "done"]
    ELSE [r EXCEPT !.flow = "process", !.token_address = token_address,
                   !.status = [state |-> "shown", text |-> FetchingText], !.pc = "market"]

\* a flag kept in one place for all users
SetWaiting_all(w, u) == [v \in Users |-> "token_address"]
\* line 281: context.user_data['waiting_for'] = 'token_address'
SetWaiting(w, u) == [w EXCEPT ![u] = "token_address"]

\* line 399: context.user_data.pop('waiting_for', None)
PopWaiting_keep(w, u) == w
PopWaiting(w, u) == [w EXCEPT ![u] = "none"]

\* user_data after /bubblemap <args> (lines 275-288)
WaitingAfterCommand_always(w, u, args) == SetWaiting(w, u)
WaitingAfterCommand(w, u, args) == IF Len(args) = 0 THEN SetWaiting(w, u) ELSE w

\* lines 270-288
bubblemap_command ==
    \E u \in Users, args \in {<<>>} \cup {<<a>> : a \in Arguments} :
        /\ Finished(req)
        /\ UNCHANGED pure
        /\ waiting_for' = WaitingAfterCommand(waiting_for, u, args)
        /\ req' = IF Len(args) = 0
                  THEN [NewReq("bubblemap", u, <<>>) EXCEPT !.replies = <<PromptText>>]
                  ELSE ProcessEntry(NewReq("bubblemap", u, args[1]), args[1])

\* line 393-394: the user is waited for
Waiting(w, u) == w[u] = "token_address"

\* a hint sent in reply to every text
IdleReply_always(text) == <<HintText>>
\* lines 406-410: the replies to a text that is not consumed as an address
IdleReply(text) == IF ~StartsWith(text, <<"/">>) THEN <<HintText>> ELSE <<>>

\* lines 390-410; the MessageHandler's filter (line 571) keeps commands out
handle_text_input ==
    \E u \in Users, text \in TextMessages :
        /\ Finished(req)
        /\ UNCHANGED pure
        /\ IF Waiting(waiting_for, u)
           THEN /\ waiting_for' = PopWaiting(waiting_for, u)
                /\ req' = ProcessEntry(NewReq("text", u, text), Strip(text))
           ELSE /\ req' = [NewReq("text", u, text) EXCEPT !.replies = IdleReply(text)]
                /\ UNCHANGED waiting_for

\* lines 436-444: the sample token and the status message of the sample flow
SampleEntry(r) ==
    [r EXCEPT !.flow = "sample", !.token_address = SampleToken,
              !.status = [state |-> "shown", text |-> FetchingText],
              !.pc = "market"]

\* lines 412-444 and 521-554: the menus, and the start of the sample flow
button_callback ==
    \E u \in Users, data \in ButtonData :
        /\ Finished(req)
        /\ UNCHANGED <<waiting_for, pure>>
        /\ req' =
             CASE data = "show_commands" ->
                      [NewReq("button", u, <<data>>) EXCEPT !.replies = <<CommandsText>>]
               [] data = "show_chains" ->
                      [NewReq("button", u, <<data>>) EXCEPT !.replies = <<ChainsText>>]
               [] data = "help" ->
                      [NewReq("button", u, <<data>>) EXCEPT !.replies = <<ButtonHelpText>>]
               [] OTHER -> SampleEntry(NewReq("button", u, <<data>>))

(***************************************************************************)
(* The provider calls of a request, one step each.  req keeps the response *)
(* of the call made last.                                                  *)
(***************************************************************************)
NullChainKind ==
    [ chainId |-> Null,
      baseToken |-> [present |-> TRUE, name |-> Str("Nil"), symbol |-> Str("NIL")],
      priceUsd |-> Str("1"), priceNative |-> AbsentV,
      liquidity |-> [present |-> FALSE, usd |-> AbsentV],
      marketCap |-> AbsentV, fdv |-> AbsentV, pairAddress |-> AbsentV, dexId |-> AbsentV ]

\* the pairs of the bot's market-data responses: every kind without a volume,
\* and the Ethereum and Tron ones with a volume too
MainPairs ==
    {WithVolume(k, NoVolume) : k \in PairKinds \cup {NullChainKind}}
    \cup {WithVolume(k, Volume(MaxVol)) : k \in {x \in PairKinds : x.chainId \in {"ethereum", "Tron"}}}

MarketResponses ==
    {Fault(c) : c \in Causes}
    \cup {NoPairsKey(Absent), NoPairsKey(Null)}
    \cup {PairsResp(ps) : ps \in SeqsUpTo(MainPairs, MaxMainPairs)}

\* the holder-metadata request with the provider's chain id in place of the internal one
MetaRequest_provider(token_info) == [chain |-> token_info.chain_original, token |-> token_info.address]
\* line 234 with 202: the chain and token of the holder-metadata request
MetaRequest(token_info) == [chain |-> token_info.chain, token |-> token_info.address]

\* lines 325-328: the chain and token of the image request
ImageRequest(token_info, token_address) == [chain |-> token_info.chain, token |-> token_address]

\* a market lookup that is made again after a fault
MarketStep_retry ==
    /\ req.pc = "market"
    /\ \E resp \in MarketResponses :
         LET r == get_token_info(req.token_address, resp)
             called == [req EXCEPT !.market = resp, !.n_market = @ + 1]
         IN  req' = IF resp.kind = "fault" /\ req.n_market = 0
                    THEN called
                    ELSE IF r.error # <<>>
                    THEN [called EXCEPT !.status.text = r.error, !.pc = "done"]
                    ELSE [called EXCEPT !.token_info = r.token_info, !.pc = "compose"]
    /\ UNCHANGED <<waiting_for, pure>>
\* lines 303-311 (process_token_address) and 447-455 (button_callback): the
\* request r after the market lookup was answered with resp
AfterMarket(r, resp) ==
    LET res == get_token_info(r.token_address, resp)
        called == [r EXCEPT !.market = resp, !.n_market = @ + 1]
    IN  IF res.error # <<>>
        THEN [called EXCEPT !.status.text = res.error, !.pc = "done"]
        ELSE [called EXCEPT !.token_info = res.token_info, !.pc = "compose"]

MarketStep ==
    /\ req.pc = "market"
    /\ \E resp \in MarketResponses : req' = AfterMarket(req, resp)
    /\ UNCHANGED <<waiting_for, pure>>

\* lines 314-321 and 458-465: format_token_info_message, which requests the
\* holder metadata (line 234), then the status message is edited
AfterCompose(r, meta) ==
    LET ti == r.token_info[1]
        f == format_token_info_message(ti, meta)
        called == [r EXCEPT !.market = NoMarket, !.meta = meta, !.n_meta = @ + 1,
                            !.meta_req = MetaRequest(ti)]
    IN  IF f.raised
        THEN [called EXCEPT !.pc = "raised"]
        ELSE [called EXCEPT
                 !.token_info_message = f.message,
                 !.status.text = IF r.flow = "sample" THEN GeneratingSampleText
                                 ELSE GeneratingText,
                 !.pc = "image"]

ComposeStep ==
    /\ req.pc = "compose"
    /\ \E meta \in MetaResponses : req' = AfterCompose(req, meta)
    /\ UNCHANGED <<waiting_for, pure>>

\* lines 323-387 and 467-519: the image request, then the photo or the degraded reply
AfterImage(r, img) ==
    LET chain == r.token_info[1].chain
        called == [r EXCEPT !.meta = NoMeta, !.image = img, !.n_image = @ + 1,
                            !.image_req = ImageRequest(r.token_info[1], r.token_address)]
        raises == IF r.flow = "sample" THEN SampleErrorRaises(img)
                  ELSE ImageErrorRaises(img)
        error_message == IF r.flow = "sample" THEN SampleErrorMessage(img)
                         ELSE ImageErrorMessage(img, chain)
    IN  IF ~ImageFailed(img)
        THEN [called EXCEPT
                 !.photo = [sent |-> TRUE, caption |-> r.token_info_message],
                 !.status = [state |-> "deleted", text |-> <<>>],
                 !.pc = "done"]
        ELSE IF raises
        THEN [called EXCEPT !.pc = "raised"]
        ELSE [called EXCEPT
                 !.status.text = error_message \o r.token_info_message,
                 !.pc = "done"]

ImageStep ==
    /\ req.pc = "image"
    /\ \E img \in ImageResponses : req' = AfterImage(req, img)
    /\ UNCHANGED <<waiting_for, pure>>

(***************************************************************************)
(* Spec: the bot.                                                          *)
(***************************************************************************)
Pending == [token_info |-> <<>>, error |-> <<>>]

PureIdle ==
    /\ in_addr = <<>>
    /\ out_addr = NoReq
    /\ in_resp = NoMarket
    /\ out_lookup = Pending
    /\ in_num = <<>>
    /\ out_num = NoFormat
    /\ queue = <<>>
    /\ done = <<>>
    /\ twin = NoReq

Init ==
    /\ waiting_for = [u \in Users |-> "none"]
    /\ req = NoReq
    /\ chain_mapping = CHAIN_MAPPING
    /\ PureIdle

Next ==
    \/ start
    \/ help_command
    \/ menu_command
    \/ bubblemap_command
    \/ handle_text_input
    \/ button_callback
    \/ MarketStep
    \/ ComposeStep
    \/ ImageStep

Spec == Init /\ [][Next]_vars

(***************************************************************************)
(* SpecAddr: the address check of process_token_address on the generated   *)
(* strings AddrInputs.                                                     *)
(***************************************************************************)
InitAddr ==
    /\ waiting_for = [u \in Users |-> "none"]
    /\ req = NoReq
    /\ chain_mapping = CHAIN_MAPPING
    /\ in_addr \in AddrInputs
    /\ out_addr = NoReq
    /\ in_resp = NoMarket
    /\ out_lookup = Pending
    /\ in_num = <<>>
    /\ out_num = NoFormat
    /\ queue = <<>>
    /\ done = <<>>
    /\ twin = NoReq

CheckAddress ==
    /\ out_addr = NoReq
    /\ out_addr' = ProcessEntry(NewReq("bubblemap", "alice", in_addr), in_addr)
    /\ UNCHANGED <<waiting_for, req, chain_mapping, twin, in_addr, in_resp, out_lookup, in_num, out_num, queue, done>>

NextAddr == CheckAddress

SpecAddr == InitAddr /\ [][NextAddr]_vars

(***************************************************************************)
(* SpecLookup: get_token_info on generated market-data responses.          *)
(***************************************************************************)
\* the responses with at most n pairs
LookupResponses(n) ==
    {Fault(c) : c \in Causes}
    \cup {NoPairsKey(Absent), NoPairsKey(Null)}
    \cup {PairsResp(ps) : ps \in SeqsUpTo(Pairs, n)}

InitLookup ==
    /\ waiting_for = [u \in Users |-> "none"]
    /\ req = NoReq
    /\ chain_mapping = CHAIN_MAPPING
    /\ in_addr = <<>>
    /\ out_addr = NoReq
    /\ in_resp \in LookupResponses(MaxPairs)
    /\ out_lookup = Pending
    /\ in_num = <<>>
    /\ out_num = NoFormat
    /\ queue = <<>>
    /\ done = <<>>
    /\ twin = NoReq

Lookup ==
    /\ out_lookup = Pending
    /\ out_lookup' = get_token_info(SampleToken, in_resp)
    /\ UNCHANGED <<waiting_for, req, chain_mapping, twin, in_addr, out_addr, in_resp, in_num, out_num, queue, done>>

NextLookup == Lookup

SpecLookup == InitLookup /\ [][NextLookup]_vars

(***************************************************************************)
(* SpecFormat: format_number on generated non-negative integers.           *)
(***************************************************************************)
NumHeads ==
    { <<"1">>, <<"9">>, <<"1", "5">>, <<"2", "3">>, <<"9", "9", "9">>, <<"1", "0", "0">>,
      <<"1", "1", "2">>, <<"2", "6", "7">> }
NumFills == {"0", "5", "9"}
NumTails == { <<>>, <<"4">>, <<"5">>, <<"5", "1">> }

\* 10^321: its quotient by 10^12 is beyond the doubles
HugeNumber == <<"1">> \o [i \in 1..321 |-> "0"]

NumInputs ==
    {<<"0">>, HugeNumber}
    \cup {ds \in {h \o Rep(c, n) \o t : h \in NumHeads, c \in NumFills, n \in 0..MaxDigits, t \in NumTails} :
             Len(ds) <= MaxDigits}

InitFormat ==
    /\ waiting_for = [u \in Users |-> "none"]
    /\ req = NoReq
    /\ chain_mapping = CHAIN_MAPPING
    /\ in_addr = <<>>
    /\ out_addr = NoReq
    /\ in_resp = NoMarket
    /\ out_lookup = Pending
    /\ in_num \in NumInputs
    /\ out_num = NoFormat
    /\ queue = <<>>
    /\ done = <<>>
    /\ twin = NoReq

Format ==
    /\ out_num = NoFormat
    /\ out_num' = IF FormatOverflows(in_num) THEN FormatRaised ELSE Formatted(FormatInt(in_num))
    /\ UNCHANGED <<waiting_for, req, chain_mapping, twin, in_addr, out_addr, in_resp, out_lookup, in_num, queue, done>>

NextFormat == Format

SpecFormat == InitFormat /\ [][NextFormat]_vars

(***************************************************************************)
(* SpecQueue: one user sends /bubblemap <address> updates at any time,     *)
(* also while a request of theirs is running.  The Application of main     *)
(* (lines 559-574) is built with the library's defaults: it takes the      *)
(* updates in the order received and starts the handler of the next one    *)
(* when the handler of the one before has returned or raised.  The         *)
(* providers answer from small sets.                                       *)
(***************************************************************************)
QueueArgs == {SampleToken, Base58Token}

QueueResponses ==
    [ market |-> { Fault("HTTPError: 429 Too Many Requests"),
                   PairsResp(<<WithVolume(CHOOSE k \in PairKinds : k.chainId = "ethereum", NoVolume)>>) },
      meta |-> { MetaFault("network"),
                 MetaJson("obj", Num(55), "absent", AbsentV, AbsentV),
                 MetaJson("obj", Str("n/a"), "absent", AbsentV, AbsentV) },
      image |-> { ImgOk, ImgNoResp, ImgError("null", <<>>) } ]

\* what the user has got from a request
Outcome(r) == [token_address |-> r.token_address, pc |-> r.pc, status |-> r.status, photo |-> r.photo]

\* bubblemap_command (lines 270-288) as the handler starts on /bubblemap <arg>
StartRequest(arg) == ProcessEntry(NewReq("bubblemap", "alice", arg), arg)

InitQueue ==
    /\ waiting_for = [u \in Users |-> "none"]
    /\ req = NoReq
    /\ chain_mapping = CHAIN_MAPPING
    /\ PureIdle

\* the user sends an update; in_flight tells whether a request was running then
Send ==
    /\ Len(done) + Len(queue) < MaxUpdates
    /\ \E a \in QueueArgs : queue' = Append(queue, [arg |-> a, in_flight |-> ~Finished(req)])
    /\ UNCHANGED <<waiting_for, req, chain_mapping, twin, done, in_addr, out_addr, in_resp, out_lookup,
                   in_num, out_num>>

\* a handler started though the one before it has not ended
Dispatch_preempt ==
    /\ IF req = NoReq
       THEN /\ queue # <<>>
            /\ req' = StartRequest(queue[1].arg)
            /\ UNCHANGED <<queue, done>>
       ELSE /\ Len(queue) >= 2
            /\ done' = Append(done, [update |-> queue[1], outcome |-> Outcome(req)])
            /\ queue' = Tail(queue)
            /\ req' = StartRequest(queue[2].arg)
    /\ UNCHANGED <<waiting_for, chain_mapping, twin, in_addr, out_addr, in_resp, out_lookup, in_num, out_num>>
\* the Application starts the handler of the oldest update not yet handled,
\* once the handler before it has ended; the update before it is done with
Dispatch ==
    /\ Finished(req)
    /\ IF req = NoReq
       THEN /\ queue # <<>>
            /\ req' = StartRequest(queue[1].arg)
            /\ UNCHANGED <<queue, done>>
       ELSE /\ Len(queue) >= 2
            /\ done' = Append(done, [update |-> queue[1], outcome |-> Outcome(req)])
            /\ queue' = Tail(queue)
            /\ req' = StartRequest(queue[2].arg)
    /\ UNCHANGED <<waiting_for, chain_mapping, twin, in_addr, out_addr, in_resp, out_lookup, in_num, out_num>>

\* the next provider call of the running request
QueueStep ==
    /\ ~Finished(req)
    /\ req' \in CASE req.pc = "market" -> {AfterMarket(req, x) : x \in QueueResponses.market}
                  [] req.pc = "compose" -> {AfterCompose(req, x) : x \in QueueResponses.meta}
                  [] OTHER -> {AfterImage(req, x) : x \in QueueResponses.image}
    /\ UNCHANGED <<waiting_for, pure>>

NextQueue ==
    \/ Send
    \/ Dispatch
    \/ QueueStep

SpecQueue == InitQueue /\ [][NextQueue]_vars

(***************************************************************************)
(* SpecSample: the sample flow of button_callback (req) side by side with  *)
(* process_token_address on the sample address (twin), as /bubblemap       *)
(* <sample address> starts it; each provider call of the two is answered   *)
(* with one and the same response.                                         *)
(***************************************************************************)
InitSample ==
    /\ waiting_for = [u \in Users |-> "none"]
    /\ req = NoReq
    /\ chain_mapping = CHAIN_MAPPING
    /\ PureIdle

SampleIdle ==
    UNCHANGED <<waiting_for, chain_mapping, in_addr, out_addr, in_resp, out_lookup,
                in_num, out_num, queue, done>>

\* lines 436-444 and 285-300: a user presses the sample button, and sends
\* /bubblemap with the sample address
PressAndSend ==
    /\ Finished(req) /\ Finished(twin)
    /\ \E u \in Users :
         /\ req' = SampleEntry(NewReq("button", u, <<"sample_bubblemap">>))
         /\ twin' = ProcessEntry(NewReq("bubblemap", u, SampleToken), SampleToken)
    /\ SampleIdle

\* lines 447-455 and 303-311
MarketBoth ==
    /\ req.pc = "market" /\ twin.pc = "market"
    /\ \E resp \in MarketResponses :
         /\ req' = AfterMarket(req, resp)
         /\ twin' = AfterMarket(twin, resp)
    /\ SampleIdle

\* lines 458-465 and 314-321
ComposeBoth ==
    /\ req.pc = "compose" /\ twin.pc = "compose"
    /\ \E meta \in MetaResponses :
         /\ req' = AfterCompose(req, meta)
         /\ twin' = AfterCompose(twin, meta)
    /\ SampleIdle

\* lines 467-519 and 323-387
ImageBoth ==
    /\ req.pc = "image" /\ twin.pc = "image"
    /\ \E img \in ImageResponses :
         /\ req' = AfterImage(req, img)
         /\ twin' = AfterImage(twin, img)
    /\ SampleIdle

NextSample ==
    \/ PressAndSend
    \/ MarketBoth
    \/ ComposeBoth
    \/ ImageBoth

SpecSample == InitSample /\ [][NextSample]_vars

(***************************************************************************)
(* The claims.                                                             *)
(***************************************************************************)
\* a handler of `handler` started for user u in this step
Started(handler, u) ==
    /\ Finished(req)
    /\ req'.handler = handler
    /\ req'.user = u
    /\ (req' # req \/ waiting_for' # waiting_for)

\* C1: while a user's flag is awaiting-address, a text message of that user is
\* handed to process_token_address as the address (stripped) and the flag is idle
\* from that step on, whatever the pipeline then does; a text message of a user
\* whose flag is idle is not handed to the pipeline.
C1_TextConsumedOnce ==
    [][\A u \in Users :
          /\ (Waiting(waiting_for, u) /\ Started("text", u))
                => /\ req'.flow = "process"
                   /\ req'.token_address = Strip(req'.text)
                   /\ ~Waiting(waiting_for', u)
          /\ (~Waiting(waiting_for, u) /\ Started("text", u))
                => /\ req'.flow = "none"
                   /\ req'.token_address = <<>>
                   /\ req'.pc = "done"
                   /\ req'.n_market = 0
                   /\ ~Waiting(waiting_for', u)
          /\ (req.handler = "text" /\ req.user = u /\ ~Finished(req))
                => ~Waiting(waiting_for', u)]_vars

\* a text message was consumed as an address that failed the validation, and
\* the sender's flag is idle
C1_Witness ==
    /\ req.handler = "text"
    /\ req.flow = "process"
    /\ req.replies = <<InvalidFormatText>>
    /\ ~Waiting(waiting_for, req.user)

\* C2: a user's flag changes only from idle to awaiting-address when that user
\* sends /bubblemap without an argument, and only from awaiting-address to idle
\* when a text message of that user is handed to the pipeline; both events do
\* change it.
C2_TwoTransitions ==
    [][\A u \in Users :
          /\ waiting_for'[u] # waiting_for[u]
                => \/ /\ ~Waiting(waiting_for, u) /\ Waiting(waiting_for', u)
                      /\ Started("bubblemap", u) /\ req'.text = <<>> /\ req'.flow = "none"
                   \/ /\ Waiting(waiting_for, u) /\ ~Waiting(waiting_for', u)
                      /\ Started("text", u) /\ req'.flow = "process"
          /\ (Started("bubblemap", u) /\ req'.flow = "none") => Waiting(waiting_for', u)]_vars

\* /bubblemap with an inline argument was handled for a user whose flag is
\* awaiting-address, and the flag still is
C2_Witness ==
    /\ req.handler = "bubblemap"
    /\ req.flow = "process"
    /\ req.pc = "done"
    /\ Waiting(waiting_for, req.user)

\* the text t ends with the text tail, and something precedes it
EndsWithAfterReason(t, tail) ==
    /\ Len(t) > Len(tail)
    /\ SubSeq(t, Len(t) - Len(tail) + 1, Len(t)) = tail

\* C3: when the image request of process_token_address failed, no image is sent
\* and the status message is edited to a failure reason followed by the whole
\* token-info text; the reason is the no-data notice when the service's error
\* says "Map not computed. API key required".
C3_DegradedReply ==
    (req.flow = "process" /\ req.image.kind \notin {"none", "ok"})
        => /\ ~req.photo.sent
           /\ req.pc = "done"
           /\ req.status.state = "shown"
           /\ EndsWithAfterReason(req.status.text, req.token_info_message)
           /\ (req.image.errtype = "str" /\ Contains(req.image.err, MapNotComputed))
                 => req.status.text = NoMapDataText \o req.token_info_message

\* C4: when the market-data response has zero pairs (pairs missing, null or an
\* empty list), the status message shows exactly the not-found text and neither
\* the holder-metadata request nor the image request is issued.
C4_ZeroPairs ==
    ZeroPairs(req.market)
        => /\ req.status = [state |-> "shown", text |-> NoPairsText]
           /\ req.replies = <<>>
           /\ ~req.photo.sent
           /\ req.pc = "done"
           /\ req.n_meta = 0
           /\ req.n_image = 0

\* a request of process_token_address ended on a response whose pairs are null
C4_Witness ==
    /\ req.flow = "process"
    /\ req.market = NoPairsKey(Null)
    /\ req.pc = "done"

\* the first pair, in response order, whose volume is the greatest among the
\* pairs that report one (0 when none reports)
GreatestReporting(pairs) ==
    LET R == {i \in 1..Len(pairs) : Reports(pairs[i])}
        best == {i \in R : \A j \in R : pairs[j].volume.h24.n <= pairs[i].volume.h24.n}
    IN  IF R = {} THEN 0 ELSE CHOOSE i \in best : \A j \in best : i <= j

\* C5: when at least one pair reports a 24h volume, get_token_info returns what
\* the first pair with the greatest reported volume resolves to.
C5_GreatestVolume ==
    (out_lookup # Pending /\ in_resp.kind = "ok" /\ GreatestReporting(in_resp.pairs) # 0)
        => out_lookup = Resolve(SampleToken, in_resp.pairs, GreatestReporting(in_resp.pairs))

\* what token_info takes from pair p
FromPair(ti, p) ==
    /\ ti.chain_original = (IF p.chainId = Absent THEN "" ELSE Lower(p.chainId))
    /\ ti.chain = CHAIN_MAPPING[ti.chain_original]
    /\ ti.name = (IF p.baseToken.present /\ p.baseToken.name # AbsentV THEN p.baseToken.name ELSE Unknown)
    /\ ti.symbol = (IF p.baseToken.present /\ p.baseToken.symbol # AbsentV THEN p.baseToken.symbol ELSE Unknown)
    /\ ti.price_usd = (IF p.priceUsd # AbsentV THEN p.priceUsd ELSE Unknown)
    /\ ti.price_native = (IF p.priceNative # AbsentV THEN p.priceNative ELSE Unknown)
    /\ ti.liquidity_usd = (IF p.liquidity.present /\ p.liquidity.usd # AbsentV THEN p.liquidity.usd ELSE Unknown)
    /\ ti.market_cap = (IF p.marketCap # AbsentV THEN p.marketCap ELSE Unknown)
    /\ ti.fdv = (IF p.fdv # AbsentV THEN p.fdv ELSE Unknown)
    /\ ti.pair_address = (IF p.pairAddress # AbsentV THEN p.pairAddress ELSE Unknown)
    /\ ti.dex = (IF p.dexId # AbsentV THEN p.dexId ELSE Unknown)

NoneReports(pairs) == pairs # <<>> /\ \A i \in 1..Len(pairs) : ~Reports(pairs[i])

HasPairs(r) == r.market.kind = "ok" /\ r.market.pairs # <<>>
Selected(r) == r.market.pairs[SelectedIndex(r.market.pairs)]

\* the request stopped at the market lookup: no token, no further request
AbortedWith(r, text) ==
    /\ r.status = [state |-> "shown", text |-> text]
    /\ r.pc = "done"
    /\ r.token_info = <<>>
    /\ ~r.photo.sent
    /\ r.n_meta = 0
    /\ r.n_image = 0

\* C7, as claimed: when the selected pair's provider chain id is no key of the
\* chain registry, the request aborts with 'Chain <that id> not supported for
\* bubble maps.', no token and no further request.
C7_AsClaimed ==
    (HasPairs(req) /\ Selected(req).chainId \notin {Absent, Null}
       /\ Selected(req).chainId \notin DOMAIN CHAIN_MAPPING)
        => AbortedWith(req, UnsupportedText(Selected(req).chainId))

\* C7, amended: when the selected pair's chain id is a string, or is absent and
\* read as the empty string, and its lower-cased form is no key of the chain
\* registry, the request aborts with 'Chain <lower-cased id> not supported for
\* bubble maps.', no token and no further request.
C7_LowerCasedChain ==
    (HasPairs(req) /\ Selected(req).chainId # Null)
        => LET id == IF Selected(req).chainId = Absent THEN "" ELSE Lower(Selected(req).chainId)
           IN  id \notin DOMAIN CHAIN_MAPPING => AbortedWith(req, UnsupportedText(id))

\* the pair selected among two is on Tron, the other one on a registered chain
C7_Witness ==
    /\ HasPairs(req)
    /\ Len(req.market.pairs) = 2
    /\ Selected(req).chainId = "Tron"
    /\ \E i \in 1..2 : req.market.pairs[i].chainId = "ethereum"
    /\ req.pc = "done"

\* C8: whatever the holder-metadata request answers, the request goes on to the
\* image stage with a composed message that holds the market part.
C8_MetadataNeverFails ==
    req.meta.kind # "none"
        => /\ req.pc = "image"
           /\ req.status.state = "shown"
           /\ req.status.text \in {GeneratingText, GeneratingSampleText}
           /\ StartsWith(req.token_info_message, MarketLines(req.token_info[1]))

\* C9: after a fault of the market-data request the text shown to the user does
\* not hold the cause of the fault.
C9_CauseNotShown ==
    req.market.kind = "fault" => ~Contains(req.status.text, req.market.cause)

\* C10: process_token_address goes on with a string exactly when the string
\* starts with '0x' and has at least 40 characters, or base-58-decodes to 32
\* bytes; any other string gets the invalid-format reply and nothing else.
C10_AddressRule ==
    out_addr # NoReq
        => LET hex == StartsWith(in_addr, <<"0", "x">>) /\ Len(in_addr) >= 40
               b58 == B58DecodedLen(in_addr) = 32
           IN  IF hex \/ b58
               THEN /\ out_addr.pc = "market"
                    /\ out_addr.replies = <<>>
                    /\ out_addr.status = [state |-> "shown", text |-> FetchingText]
               ELSE /\ out_addr.pc = "done"
                    /\ out_addr.replies = <<InvalidFormatText>>
                    /\ out_addr.status = NoStatus

\* a string of fewer than 40 characters was accepted: it decodes to 32 bytes
C10_Witness ==
    /\ out_addr # NoReq
    /\ out_addr.pc = "market"
    /\ Len(in_addr) < 40

\* the provider ids the registry maps to the internal id c
ProviderIdsOf(c) == {x \in DOMAIN chain_mapping : chain_mapping[x] = c}

\* C11: in every state the chain registry is the table it was loaded as, with
\* ten entries, and no two provider ids map to the same internal id, so each
\* internal id leads back to the one provider id it came from.
C11_RegistryBijection ==
    /\ chain_mapping = CHAIN_MAPPING
    /\ Cardinality(DOMAIN chain_mapping) = 10
    /\ \A x \in DOMAIN chain_mapping : ProviderIdsOf(chain_mapping[x]) = {x}

\* a request resolved a token through the registry and ended, and the token's
\* internal chain id leads back to the (lower-cased) provider id of its pair
C11_Witness ==
    /\ req.flow = "process"
    /\ req.pc = "done"
    /\ req.token_info # <<>>
    /\ req.token_info[1].chain = "bsc"
    /\ ProviderIdsOf(req.token_info[1].chain) = {req.token_info[1].chain_original}

\* the suffix of the range that holds the integer of digits ds
RangeSuffix(ds) ==
    CASE Len(ds) <= 3 -> <<>>
      [] Len(ds) \in 4..6 -> <<"K">>
      [] Len(ds) \in 7..9 -> <<"M">>
      [] Len(ds) \in 10..12 -> <<"B">>
      [] OTHER -> <<"T">>

RangeExp(ds) == IF Len(ds) <= 3 THEN 0 ELSE IF Len(ds) >= 13 THEN 12 ELSE 3 * ((Len(ds) - 1) \div 3)

\* the numbers of hundredths nearest to the integer divided by its range's unit
NearestHundredths(ds) ==
    LET k == RangeExp(ds)
        h0 == NatOf(SubSeq(ds, 1, Len(ds) - k + 2))
        c == HalfCmp(SubSeq(ds, Len(ds) - k + 3, Len(ds)))
    IN  IF k = 0 THEN {100 * NatOf(ds)}
        ELSE IF c = -1 THEN {h0} ELSE IF c = 1 THEN {h0 + 1} ELSE {h0, h0 + 1}

\* C12: format_number returns, for every non-negative integer, the integer
\* divided by the unit of its range, rounded to two decimals, followed by the
\* range's suffix: "1.50M" for 1500000, "999.00" for 999, "2.30B" for 2300000000.
C12_TwoDecimalsAndSuffix ==
    out_num # NoFormat
        => /\ ~out_num.raised
           /\ \E h \in NearestHundredths(in_num) : out_num.text = Fixed2(h) \o RangeSuffix(in_num)
           /\ in_num = <<"1", "5", "0", "0", "0", "0", "0">> => out_num.text = <<"1", ".", "5", "0", "M">>
           /\ in_num = <<"9", "9", "9">> => out_num.text = <<"9", "9", "9", ".", "0", "0">>
           /\ in_num = <<"2", "3">> \o Rep("0", 8) => out_num.text = <<"2", ".", "3", "0", "B">>

\* C13: the holder-metadata request is issued only in a step that follows the
\* one market lookup of the request, when that lookup returned pairs and the
\* selected pair's chain id (lower-cased, as get_token_info reads it) is in the
\* registry; the image request only after that; both name the internal chain id
\* the registry gives for that pair and the address of the request; a request
\* without a resolved token has issued neither.
C13_RequestsAfterResolution ==
    [][/\ req'.n_meta > req.n_meta
            => /\ req.n_market = 1 /\ req.n_meta = 0 /\ req.n_image = 0
               /\ HasPairs(req)
               /\ Selected(req).chainId \notin {Absent, Null}
               /\ Lower(Selected(req).chainId) \in DOMAIN CHAIN_MAPPING
               /\ req'.meta_req = [chain |-> CHAIN_MAPPING[Lower(Selected(req).chainId)],
                                   token |-> req.token_address]
       /\ req'.n_image > req.n_image
            => /\ req.n_market = 1 /\ req.n_meta = 1 /\ req.n_image = 0
               /\ req.token_info # <<>>
               /\ req'.image_req = req.meta_req
               /\ req'.image_req.token = req'.token_address
       /\ req'.token_info = <<>>
            => /\ req'.n_meta = 0 /\ req'.n_image = 0
               /\ req'.meta_req = NoRequest /\ req'.image_req = NoRequest]_vars

\* the image request of a user's own address went out for the internal id of a
\* chain the provider named in upper case
C13_Witness ==
    /\ req.flow = "process"
    /\ req.token_address = Base58Token
    /\ req.image_req = [chain |-> "bsc", token |-> Base58Token]
    /\ req.meta_req = req.image_req
    /\ req.token_info[1].chain_original = "bsc"

\* C14: when process_token_address is handed a string the validator rejects
\* (Accepted holds the strings of the model that line 293 lets through),
\* as the argument of /bubblemap or as a follow-up text, the request ends at
\* once: no request to any of the three providers, no status message, no
\* photo, and the invalid-format text as its one reply.
C14_FailFast ==
    (req.flow = "process" /\ req.token_address \notin Accepted)
        => /\ req.handler \in {"bubblemap", "text"}
           /\ req.n_market = 0 /\ req.n_meta = 0 /\ req.n_image = 0
           /\ req.status = NoStatus
           /\ ~req.photo.sent
           /\ req.replies = <<InvalidFormatText>>
           /\ req.pc = "done"

\* /bubblemap with a hex string that is too short was answered
C14_Witness ==
    /\ req.handler = "bubblemap"
    /\ req.text = ShortHex
    /\ req.flow = "process"
    /\ req.replies # <<>>

\* the image request got a non-success response that says neither 'Map not
\* computed. API key required' nor 'Token not found'
OtherImageFailure(img) ==
    /\ img.kind = "http"
    /\ ~(img.errtype = "str" /\ (Contains(img.err, MapNotComputed) \/ Contains(img.err, TokenNotFound)))

\* the error text of the provider's response: the error of a JSON body, the
\* text of a body that is no JSON, <<>> when there is none
ProviderErrorText(img) ==
    IF img.json = "invalid" THEN img.raw
    ELSE IF img.json = "obj" /\ img.errtype \in {"str", "obj"} THEN img.err
    ELSE <<>>

\* C15: after such a failure of the image request of process_token_address the
\* status message shows, before the token info, the provider's error text when
\* there is one and it is shorter than 200 characters, and the generic
\* 'Error generating bubble map.' otherwise.
C15_ShortTextOrGeneric ==
    (req.flow = "process" /\ OtherImageFailure(req.image))
        => LET t == ProviderErrorText(req.image)
           IN  req.status.text =
                   (IF t # <<>> /\ TextLen(t) < ShortTextLimit THEN t \o <<"\n\n">>
                    ELSE GenericImageError) \o req.token_info_message

\* the requests made so far to the three providers
Requests(r) == <<r.n_market, r.n_meta, r.n_image>>

\* C16: a request asks each provider at most once: a step of a running request
\* adds at most one request, to a provider not asked before in it, and a
\* provider once asked, with a failure or not, is not asked again before the
\* request has ended and a handler has started on a new update.
C16_NoRetry ==
    [][/\ \A i \in 1..3 : Requests(req')[i] <= 1
       /\ ~Finished(req)
            => /\ req'.handler = req.handler /\ req'.user = req.user /\ req'.text = req.text
               /\ \A i \in 1..3 : Requests(req')[i] >= Requests(req)[i]
               /\ Cardinality({i \in 1..3 : Requests(req')[i] > Requests(req)[i]}) = 1
       /\ Finished(req) => Requests(req') = <<0, 0, 0>>]_vars

\* the holder-metadata request and the image request were made once each, the
\* image request failed without a response, and the request has ended
C16_Witness ==
    /\ Requests(req) = <<1, 1, 1>>
    /\ req.image = ImgNoResp
    /\ req.pc = "done"

\* the step in which the token-info message is composed from the selected pair
Composes == req.pc = "compose" /\ req'.pc = "image" /\ HasPairs(req)

\* the message has the line of `label` with the value "Unknown"
ShowsUnknown(msg, label) ==
    \E i \in 1..(Len(msg) - 2) : msg[i] = label /\ msg[i + 1] = "Unknown" /\ msg[i + 2] = "\n"

\* the message's title is *name (symbol)*
TitleShows(msg, name, symbol) ==
    /\ name # "" => (msg[1] = "*" /\ msg[2] = name /\ msg[3] = " (")
    /\ symbol # "" => (msg[3] = " (" /\ msg[4] = symbol /\ msg[5] = ")*\n\n")

NameAbsent(p) == ~p.baseToken.present \/ p.baseToken.name = AbsentV
SymbolAbsent(p) == ~p.baseToken.present \/ p.baseToken.symbol = AbsentV
LiquidityAbsent(p) == ~p.liquidity.present \/ p.liquidity.usd = AbsentV

\* C17, as claimed: the composed message shows "Unknown" for each of name,
\* symbol, price, 24h volume, liquidity, market cap and FDV that the selected
\* pair omits, on that field's line.
C17_AsClaimed ==
    [][Composes
          => LET p == Selected(req)
                 msg == req'.token_info_message
             IN  /\ NameAbsent(p) => TitleShows(msg, "Unknown", "")
                 /\ SymbolAbsent(p) => TitleShows(msg, "", "Unknown")
                 /\ p.priceUsd = AbsentV => ShowsUnknown(msg, "*Price:* $")
                 /\ ~Reports(p) => ShowsUnknown(msg, "*24h Volume:* $")
                 /\ LiquidityAbsent(p) => ShowsUnknown(msg, "*Liquidity:* $")
                 /\ p.marketCap = AbsentV => ShowsUnknown(msg, "*Market Cap:* $")
                 /\ p.fdv = AbsentV => ShowsUnknown(msg, "*FDV:* $")]_vars

\* C17, amended: for a name, symbol or price the selected pair omits, the
\* composed message shows "Unknown" in the title or on the price line; for a
\* 24h volume, liquidity, market cap or FDV the pair omits, the message has no
\* line of that field at all.
C17_UnknownOrOmitted ==
    [][Composes
          => LET p == Selected(req)
                 msg == req'.token_info_message
             IN  /\ NameAbsent(p) => TitleShows(msg, "Unknown", "")
                 /\ SymbolAbsent(p) => TitleShows(msg, "", "Unknown")
                 /\ p.priceUsd = AbsentV => ShowsUnknown(msg, "*Price:* $")
                 /\ ~Reports(p) => ~Contains(msg, "*24h Volume:* $")
                 /\ LiquidityAbsent(p) => ~Contains(msg, "*Liquidity:* $")
                 /\ p.marketCap = AbsentV => ~Contains(msg, "*Market Cap:* $")
                 /\ p.fdv = AbsentV => ~Contains(msg, "*FDV:* $")]_vars

\* a message was composed for a token whose pair had none of the seven fields:
\* it ends after the price line
C17_Witness ==
    /\ req.pc = "image"
    /\ req.token_info[1].name = Unknown
    /\ req.token_info[1].price_usd = Unknown
    /\ req.token_info[1].volume_h24 = Unknown
    /\ req.token_info[1].fdv = Unknown
    /\ req.meta.shape = "empty"
    /\ req.token_info_message[Len(req.token_info_message) - 2] = "*Price:* $"

\* C18: every step is an event of one user (the start of a handler on that
\* user's update, or a step of that user's request) and leaves the flag of
\* every other user as it was; whether a text message of user b is handed to the
\* pipeline as an address is decided by b's own flag alone, which only b's
\* events have written.
C18_FlagsIndependent ==
    [][\A b \in Users :
          /\ req'.user # b => waiting_for'[b] = waiting_for[b]
          /\ Started("text", b) => (req'.flow = "process" <=> Waiting(waiting_for, b))]_vars

\* bob's text message got the hint while alice was awaited: her flag is still set
C18_Witness ==
    /\ req.handler = "text"
    /\ req.user = "bob"
    /\ req.replies = <<HintText>>
    /\ Waiting(waiting_for, "alice")
    /\ ~Waiting(waiting_for, "bob")

\* the states a request for the address arg passes through, whichever answers
\* it gets to its own provider calls, when nothing else is going on
RunsAlone(arg) ==
    LET s0 == StartRequest(arg)
        S1 == {AfterMarket(s0, x) : x \in QueueResponses.market}
        S2 == {AfterCompose(s, x) : s \in {t \in S1 : t.pc = "compose"}, x \in QueueResponses.meta}
        S3 == {AfterImage(s, x) : s \in {t \in S2 : t.pc = "image"}, x \in QueueResponses.image}
    IN  {s0} \cup S1 \cup S2 \cup S3

\* the request the handler is on is as a request for the same address would be
\* if it ran alone
OwnContentOnly == req # NoReq => req \in RunsAlone(queue[1].arg)

LookupErrorOutcome(r) ==
    /\ r.market.kind # "none"
    /\ r.status = [state |-> "shown", text |-> get_token_info(r.token_address, r.market).error]
    /\ r.status.text # <<>>
    /\ ~r.photo.sent

ImageOutcome(r) ==
    /\ r.photo = [sent |-> TRUE, caption |-> r.token_info_message]
    /\ r.token_info_message # <<>>
    /\ r.status.state = "deleted"

DegradedOutcome(r) ==
    /\ ~r.photo.sent
    /\ r.status.state = "shown"
    /\ r.token_info_message # <<>>
    /\ EndsWithAfterReason(r.status.text, r.token_info_message)

\* C20: a request of process_token_address that passed the validation and has
\* ended, ended in exactly one of the three outcomes (lookup error text; photo
\* with the token-info caption and the status message deleted; failure reason
\* followed by the token info), and its status message does not show a progress
\* text any more.
C20_OneTerminalOutcome ==
    (req.flow = "process" /\ req.token_address \in Accepted /\ Finished(req))
        => /\ Cardinality({o \in {"lookup", "image", "degraded"} :
                              \/ o = "lookup" /\ LookupErrorOutcome(req)
                              \/ o = "image" /\ ImageOutcome(req)
                              \/ o = "degraded" /\ DegradedOutcome(req)}) = 1
           /\ ~(req.status.state = "shown" /\ req.status.text \in {FetchingText, GeneratingText})

\* what a request shows when it never entered the pipeline: no address, no
\* request to any provider, no status message and no photo
OutsidePipeline(r) ==
    /\ r.flow = "none"
    /\ r.token_address = <<>>
    /\ r.pc = "done"
    /\ r.n_market = 0 /\ r.n_meta = 0 /\ r.n_image = 0
    /\ r.meta_req = NoRequest /\ r.image_req = NoRequest
    /\ r.status = NoStatus
    /\ ~r.photo.sent

\* C21, as claimed: a text message that is no command, received while its
\* sender's flag is idle, never enters the pipeline, leaves every flag as it
\* is, and is answered with the hint to use /bubblemap and nothing else.
C21_AsClaimed ==
    [][\A u \in Users :
          (~Waiting(waiting_for, u) /\ Started("text", u))
              => /\ OutsidePipeline(req')
                 /\ waiting_for' = waiting_for
                 /\ req'.replies = <<HintText>>]_vars

\* C21, amended: a text message that is no command, received while its
\* sender's flag is idle, never enters the pipeline and leaves every flag as
\* it is; it is answered with the hint to use /bubblemap and nothing else when
\* it does not start with '/', and with nothing at all when it does.
C21_HintUnlessSlash ==
    [][\A u \in Users :
          (~Waiting(waiting_for, u) /\ Started("text", u))
              => /\ OutsidePipeline(req')
                 /\ waiting_for' = waiting_for
                 /\ req'.replies = IF StartsWith(req'.text, <<"/">>) THEN <<>> ELSE <<HintText>>]_vars

\* a text that starts with '/' and is no command was received from a user whose
\* flag is idle, and got no reply
C21_Witness ==
    /\ req.handler = "text"
    /\ req.text = SlashText
    /\ req.flow = "none"
    /\ req.replies = <<>>
    /\ ~Waiting(waiting_for, req.user)

\* what the user is left with when a request has ended: the status message
\* (its text, or that it was deleted) and the photo with its caption
FinalContent(r) == [status |-> r.status, photo |-> r.photo]

\* C22: given the same provider responses, the sample flow of the button and
\* process_token_address on the sample address leave the user with the same
\* content when they have ended: the same lookup-error text, the same photo
\* and caption, and after a failed image request the same failure reason
\* followed by the token-info text.
C22_SampleAsProcess ==
    (req.flow = "sample" /\ Finished(req) /\ Finished(twin))
        => FinalContent(req) = FinalContent(twin)

====
